---- MODULE Spec2Model ----
(***************************************************************************)
(* Model of src/set.py, a Streamlit script.  Streamlit re-executes the     *)
(* whole script top to bottom after every widget interaction, so the state *)
(* is the value of each widget (session state) together with what the last *)
(* script run computed and displayed.  One action = one user interaction   *)
(* followed by the complete script run it triggers.                        *)
(*                                                                         *)
(* Numbers.  Every degree in the script is a decimal with at most two      *)
(* places; the model holds them as integers in hundredths (0.85 is 85).    *)
(* Heights are whole centimetres.  Arithmetic is exact decimal arithmetic: *)
(* binary floating-point rounding of the script's values is not modelled.  *)
(***************************************************************************)
EXTENDS Integers, Sequences, FiniteSets

\* hundredths per unit: 1.0 is Scale
Scale == 100

(***************************************************************************)
(* Bounds of the model (not program constants).                            *)
(***************************************************************************)
\* number of evenly spread positions (besides its default) each of the six
\* fuzzy-graph sliders is moved to
GridLevels == 3
\* number of evenly spread values of 0.0 .. 1.0 the picture-fuzzy sliders are
\* moved to (SpecPFS) and the inputs of the refusal expression are drawn from
\* (SpecDerive)
PfsLevels == 21

(***************************************************************************)
(* Widget parameters (min, max, default, step) as written in the script.   *)
(***************************************************************************)
HeightMin == 140
HeightMax == 220
HeightDefault == 175
\* sliders of the fuzzy-graph demo: 0.0 .. 1.0 in steps of 0.05
SliderStep == 5
SigmaADefault == 90
SigmaBDefault == 80
SigmaCDefault == 100
MuABDefault == 70
MuBCDefault == 60
MuACDefault == 50
\* threshold slider: 0.5 .. 0.9, default 0.65, step 0.01
ThresholdMin == 50
ThresholdMax == 90
ThresholdDefault == 65
\* picture-fuzzy-set sliders: min 0.0, defaults 0.5 / 0.2 / 0.1, default step 0.01
SupportPfsDefault == 50
OpposePfsDefault == 20
AbstainPfsDefault == 10

Pages == {"Fuzzy Graph Theory", "Picture Fuzzy Similarity Measures (Research Paper)"}
GraphPage == "Fuzzy Graph Theory"
PaperPage == "Picture Fuzzy Similarity Measures (Research Paper)"

Min2(a, b) == IF a <= b THEN a ELSE b

(***************************************************************************)
(* f"{x:.2f}": the decimal string of a value, as its sign and digits       *)
(* <<sign, units, tenths, hundredths>>.                                    *)
(***************************************************************************)
Fmt2(v) ==
    LET a == IF v < 0 THEN 0 - v ELSE v
    IN  << IF v < 0 THEN "-" ELSE "", a \div Scale, (a \div 10) % 10, a % 10 >>

(***************************************************************************)
(* The 'Tall People' membership (lines 50-57), in hundredths.              *)
(***************************************************************************)
MembershipUnscaled(height) ==
    IF height < 160 THEN 0
    ELSE IF height < 180 THEN ((height - 160) * Scale) \div 20
    ELSE IF height < 190 THEN 80 + ((((height - 180) * Scale) \div 10) * 2) \div 10
    ELSE Scale

MembershipFlatTop(height) ==
    IF height < 160 THEN 0
    ELSE IF height < 180 THEN ((((height - 160) * Scale) \div 20) * 8) \div 10
    ELSE 80

Membership(height) ==
    IF height < 160 THEN 0
    ELSE IF height < 180 THEN ((((height - 160) * Scale) \div 20) * 8) \div 10
    ELSE IF height < 190 THEN 80 + ((((height - 180) * Scale) \div 10) * 2) \div 10
    ELSE Scale

(***************************************************************************)
(* The golden-rule check (lines 85-91).  A violation message is modelled   *)
(* by the three things formatted into it: the edge, f"{mu:.2f}" and        *)
(* f"{min(sigma_u, sigma_v):.2f}".                                         *)
(***************************************************************************)
Violation(edge, mu, sigma_u, sigma_v) ==
    [edge |-> edge, mu |-> Fmt2(mu), bound |-> Fmt2(Min2(sigma_u, sigma_v))]

ViolationsSkipBC(sa, sb, sc, ab, bc, ac) ==
    LET v1 == IF ab > Min2(sa, sb) THEN << Violation("A-B", ab, sa, sb) >> ELSE << >>
    IN  IF ac > Min2(sa, sc) THEN Append(v1, Violation("A-C", ac, sa, sc)) ELSE v1

ViolationsBCLast(sa, sb, sc, ab, bc, ac) ==
    LET v1 == IF ab > Min2(sa, sb) THEN << Violation("A-B", ab, sa, sb) >> ELSE << >>
        v2 == IF ac > Min2(sa, sc) THEN Append(v1, Violation("A-C", ac, sa, sc)) ELSE v1
    IN  IF bc > Min2(sb, sc) THEN Append(v2, Violation("B-C", bc, sb, sc)) ELSE v2

Violations(sa, sb, sc, ab, bc, ac) ==
    LET v1 == IF ab > Min2(sa, sb) THEN << Violation("A-B", ab, sa, sb) >> ELSE << >>
        v2 == IF bc > Min2(sb, sc) THEN Append(v1, Violation("B-C", bc, sb, sc)) ELSE v1
    IN  IF ac > Min2(sa, sc) THEN Append(v2, Violation("A-C", ac, sa, sc)) ELSE v2

(***************************************************************************)
(* The right-hand column of the fuzzy-graph demo (lines 93-113).           *)
(* FuzzyGraphCalls: how many calls the run makes into the graphviz         *)
(* library (Graph(), attr x2, node x3, edge x3).  Col2Shown: the st.*      *)
(* elements displayed, in order.  Col2Warned: the violation messages       *)
(* passed to st.warning, in order.                                         *)
(***************************************************************************)
FuzzyGraphCallsUnguarded(installed) == 9

FuzzyGraphCalls(installed) == IF installed THEN 9 ELSE 0

Col2ShownBoth(installed, violations) ==
    IF installed
    THEN << "graphviz_chart" >>
         \o [i \in 1..Len(violations) |-> "warning"]
         \o << "success" >>
    ELSE << "instructions" >>

Col2Shown(installed, violations) ==
    IF installed
    THEN << "graphviz_chart" >>
         \o (IF violations # << >>
             THEN [i \in 1..Len(violations) |-> "warning"]
             ELSE << "success" >>)
    ELSE << "instructions" >>

Col2Warned(installed, violations) ==
    IF installed /\ violations # << >> THEN violations ELSE << >>

(***************************************************************************)
(* The clustering demo (lines 225-246).                                    *)
(***************************************************************************)
\* the dict `edges` (lines 230-234), in insertion order, weights in hundredths
EDGES ==
    << [u |-> "G9",  v |-> "G4",  weight |-> 87],
       [u |-> "G7",  v |-> "G2",  weight |-> 83],
       [u |-> "G6",  v |-> "G1",  weight |-> 82],
       [u |-> "G7",  v |-> "G3",  weight |-> 81],
       [u |-> "G7",  v |-> "G8",  weight |-> 74],
       [u |-> "G10", v |-> "G5",  weight |-> 76],
       [u |-> "G3",  v |-> "G9",  weight |-> 64],
       [u |-> "G8",  v |-> "G10", weight |-> 69],
       [u |-> "G1",  v |-> "G4",  weight |-> 64] >>

\* mst_dot.edge(u, v, label=f"{weight:.2f}") and mst_dot.node(u)
EdgeStmt(e) == [op |-> "edge", a |-> e.u, b |-> e.v, label |-> Fmt2(e.weight)]
NodeStmt(n) == [op |-> "node", a |-> n, b |-> n, label |-> << >>]

\* one iteration of the loop (lines 237-242): the statements it adds to mst_dot
EdgeBodyStrict(e, threshold) ==
    IF e.weight > threshold
    THEN << EdgeStmt(e) >>
    ELSE << NodeStmt(e.u), NodeStmt(e.v) >>

EdgeBodyDropCut(e, threshold) ==
    IF e.weight >= threshold
    THEN << EdgeStmt(e) >>
    ELSE << >>

EdgeBody(e, threshold) ==
    IF e.weight >= threshold
    THEN << EdgeStmt(e) >>
    ELSE << NodeStmt(e.u), NodeStmt(e.v) >>

\* the loop over edges.items() (line 236): the body of mst_dot after the
\* first n edges
RECURSIVE MstBody(_, _)
MstBody(n, threshold) ==
    IF n = 0 THEN << >>
    ELSE MstBody(n - 1, threshold) \o EdgeBody(EDGES[n], threshold)

\* what the lower part of the clustering tab does (lines 225-246):
\* the graph handed to st.graphviz_chart, the number of calls into the
\* graphviz library (Graph(), attr, then one per statement), and the
\* elements displayed
ClusterDemoUnguarded(installed, threshold) ==
    [dot   |-> MstBody(Len(EDGES), threshold),
     calls |-> 2 + Len(MstBody(Len(EDGES), threshold)),
     shown |-> << "graphviz_chart" >>]

ClusterDemo(installed, threshold) ==
    IF installed
    THEN [dot   |-> MstBody(Len(EDGES), threshold),
          calls |-> 2 + Len(MstBody(Len(EDGES), threshold)),
          shown |-> << "graphviz_chart" >>]
    ELSE [dot   |-> << >>,
          calls |-> 0,
          shown |-> << "instructions" >>]

\* the nodes of the drawing of a graph body: graphviz draws every node
\* named by a node statement or by an endpoint of an edge statement
NodesOf(dot) == { dot[k].a : k \in 1..Len(dot) } \cup { dot[k].b : k \in 1..Len(dot) }

(***************************************************************************)
(* The Picture Fuzzy Set tab (lines 182-191).                              *)
(***************************************************************************)
\* oppose_pfs_max (line 183) and abstain_pfs_max (line 185)
OpposePfsMax(support) == Scale - support
AbstainPfsMaxLoose(support, oppose) == Scale - support
AbstainPfsMax(support, oppose) == Scale - support - oppose
\* refusal (line 187)
RefusalClamped(support, oppose, abstain) ==
    IF Scale - support - oppose - abstain < 0 THEN 0
    ELSE Scale - support - oppose - abstain
Refusal(support, oppose, abstain) == Scale - support - oppose - abstain

\* st.slider(label, min, max, default): the call raises StreamlitAPIException
\* when the default value does not lie between min and max
SliderRaises(lo, hi, default) == ~ (lo <= default /\ default <= hi)

(***************************************************************************)
(* State.                                                                  *)
(***************************************************************************)
VARIABLES
    GRAPHVIZ_INSTALLED, \* lines 4-8: whether `import graphviz` succeeded
    selection,          \* the sidebar radio (line 264)
    height,             \* slider, line 47
    sigma_a, sigma_b, sigma_c, mu_ab, mu_bc, mu_ac,   \* sliders, lines 77-82
    support_pfs, oppose_pfs, abstain_pfs,             \* sliders, lines 182-186
    threshold,          \* slider, line 221
    \* what the last script run computed and displayed
    membership,         \* line 50-57
    violations,         \* lines 85-91
    col2_shown,         \* st.* elements of the fuzzy-graph column, in order
    col2_warned,        \* messages given to st.warning, in order
    refusal,            \* line 187
    mst_dot,            \* statements added to mst_dot, in order
    cluster_shown,      \* st.* elements below the threshold slider
    graphviz_calls,     \* calls into the graphviz library during the run
    raised,             \* the exception that ended the run, "" if none
    rendered            \* the demos the run evaluated to their end

widgets == << height, sigma_a, sigma_b, sigma_c, mu_ab, mu_bc, mu_ac,
              support_pfs, oppose_pfs, abstain_pfs, threshold >>
outputs == << membership, violations, col2_shown, col2_warned, refusal, mst_dot,
              cluster_shown, graphviz_calls, raised, rendered >>
vars == << GRAPHVIZ_INSTALLED, selection, widgets, outputs >>

(***************************************************************************)
(* One run of the script (lines 259-269) on given widget values.           *)
(* Only the page chosen in the sidebar is rendered.  On the paper page the *)
(* run stops at the first slider call that raises, so nothing below it     *)
(* (neither the refusal nor the clustering demo) is evaluated.  The Fuzzy  *)
(* Set and Intuitionistic tabs (lines 163-176) have their own slider keys; *)
(* they are left at their defaults, with which they render.                *)
(***************************************************************************)
PfsRaises(s, o) ==
    \/ SliderRaises(0, OpposePfsMax(s), OpposePfsDefault)
    \/ SliderRaises(0, AbstainPfsMax(s, o), AbstainPfsDefault)

ScriptRun(installed, sel, h, sa, sb, sc, ab, bc, ac, s, o, a, t) ==
    IF sel = GraphPage
    THEN LET v == Violations(sa, sb, sc, ab, bc, ac)
         IN  [membership     |-> Membership(h),
              violations     |-> v,
              col2_shown     |-> Col2Shown(installed, v),
              col2_warned    |-> Col2Warned(installed, v),
              refusal        |-> 0,
              mst_dot        |-> << >>,
              cluster_shown  |-> << >>,
              graphviz_calls |-> FuzzyGraphCalls(installed),
              raised         |-> "",
              rendered       |-> {"tall", "fuzzy_graph"}]
    ELSE IF PfsRaises(s, o)
    THEN [membership     |-> 0,
          violations     |-> << >>,
          col2_shown     |-> << >>,
          col2_warned    |-> << >>,
          refusal        |-> 0,
          mst_dot        |-> << >>,
          cluster_shown  |-> << >>,
          graphviz_calls |-> 0,
          raised         |-> "StreamlitAPIException",
          rendered       |-> {}]
    ELSE LET c == ClusterDemo(installed, t)
         IN  [membership     |-> 0,
              violations     |-> << >>,
              col2_shown     |-> << >>,
              col2_warned    |-> << >>,
              refusal        |-> Refusal(s, o, a),
              mst_dot        |-> c.dot,
              cluster_shown  |-> c.shown,
              graphviz_calls |-> c.calls,
              raised         |-> "",
              rendered       |-> {"pfs", "cluster"}]

\* the run triggered by an interaction, on the new widget values
Rerun ==
    LET r == ScriptRun(GRAPHVIZ_INSTALLED, selection', height', sigma_a', sigma_b',
                       sigma_c', mu_ab', mu_bc', mu_ac', support_pfs', oppose_pfs',
                       abstain_pfs', threshold')
    IN  /\ membership' = r.membership
        /\ violations' = r.violations
        /\ col2_shown' = r.col2_shown
        /\ col2_warned' = r.col2_warned
        /\ refusal' = r.refusal
        /\ mst_dot' = r.mst_dot
        /\ cluster_shown' = r.cluster_shown
        /\ graphviz_calls' = r.graphviz_calls
        /\ raised' = r.raised
        /\ rendered' = r.rendered
        /\ UNCHANGED GRAPHVIZ_INSTALLED

WidgetDefaults ==
    /\ height = HeightDefault
    /\ sigma_a = SigmaADefault /\ sigma_b = SigmaBDefault /\ sigma_c = SigmaCDefault
    /\ mu_ab = MuABDefault /\ mu_bc = MuBCDefault /\ mu_ac = MuACDefault
    /\ support_pfs = SupportPfsDefault
    /\ oppose_pfs = OpposePfsDefault
    /\ abstain_pfs = AbstainPfsDefault
    /\ threshold = ThresholdDefault

\* the first run of a session: the import succeeded or not, the radio is on
\* its first option, every widget is at its default
Init ==
    /\ GRAPHVIZ_INSTALLED \in BOOLEAN
    /\ selection = GraphPage
    /\ WidgetDefaults
    /\ LET r == ScriptRun(GRAPHVIZ_INSTALLED, GraphPage, HeightDefault, SigmaADefault,
                          SigmaBDefault, SigmaCDefault, MuABDefault, MuBCDefault,
                          MuACDefault, SupportPfsDefault, OpposePfsDefault,
                          AbstainPfsDefault, ThresholdDefault)
       IN  /\ membership = r.membership
           /\ violations = r.violations
           /\ col2_shown = r.col2_shown
           /\ col2_warned = r.col2_warned
           /\ refusal = r.refusal
           /\ mst_dot = r.mst_dot
           /\ cluster_shown = r.cluster_shown
           /\ graphviz_calls = r.graphviz_calls
           /\ raised = r.raised
           /\ rendered = r.rendered

(***************************************************************************)
(* User interactions.  A widget exists only while the page (and, on the    *)
(* paper page, the part of the script) that creates it is being rendered;  *)
(* a widget that a run does not create loses its state and starts from its *)
(* default when it is created again.                                       *)
(***************************************************************************)
\* the sidebar radio (lines 264-269)
Navigate(sel) ==
    /\ sel # selection
    /\ selection' = sel
    /\ height' = HeightDefault
    /\ sigma_a' = SigmaADefault /\ sigma_b' = SigmaBDefault /\ sigma_c' = SigmaCDefault
    /\ mu_ab' = MuABDefault /\ mu_bc' = MuBCDefault /\ mu_ac' = MuACDefault
    /\ support_pfs' = SupportPfsDefault
    /\ oppose_pfs' = OpposePfsDefault
    /\ abstain_pfs' = AbstainPfsDefault
    /\ threshold' = ThresholdDefault
    /\ Rerun

\* the height slider (line 47)
SetHeight(h) ==
    /\ selection = GraphPage
    /\ h # height
    /\ height' = h
    /\ UNCHANGED << selection, sigma_a, sigma_b, sigma_c, mu_ab, mu_bc, mu_ac,
                    support_pfs, oppose_pfs, abstain_pfs, threshold >>
    /\ Rerun

\* the six sliders of the fuzzy-graph demo (lines 77-82)
SetSigmaA(x) ==
    /\ selection = GraphPage
    /\ x # sigma_a
    /\ sigma_a' = x
    /\ UNCHANGED << selection, height, sigma_b, sigma_c, mu_ab, mu_bc, mu_ac,
                    support_pfs, oppose_pfs, abstain_pfs, threshold >>
    /\ Rerun

SetSigmaB(x) ==
    /\ selection = GraphPage
    /\ x # sigma_b
    /\ sigma_b' = x
    /\ UNCHANGED << selection, height, sigma_a, sigma_c, mu_ab, mu_bc, mu_ac,
                    support_pfs, oppose_pfs, abstain_pfs, threshold >>
    /\ Rerun

SetSigmaC(x) ==
    /\ selection = GraphPage
    /\ x # sigma_c
    /\ sigma_c' = x
    /\ UNCHANGED << selection, height, sigma_a, sigma_b, mu_ab, mu_bc, mu_ac,
                    support_pfs, oppose_pfs, abstain_pfs, threshold >>
    /\ Rerun

SetMuAB(x) ==
    /\ selection = GraphPage
    /\ x # mu_ab
    /\ mu_ab' = x
    /\ UNCHANGED << selection, height, sigma_a, sigma_b, sigma_c, mu_bc, mu_ac,
                    support_pfs, oppose_pfs, abstain_pfs, threshold >>
    /\ Rerun

SetMuBC(x) ==
    /\ selection = GraphPage
    /\ x # mu_bc
    /\ mu_bc' = x
    /\ UNCHANGED << selection, height, sigma_a, sigma_b, sigma_c, mu_ab, mu_ac,
                    support_pfs, oppose_pfs, abstain_pfs, threshold >>
    /\ Rerun

SetMuAC(x) ==
    /\ selection = GraphPage
    /\ x # mu_ac
    /\ mu_ac' = x
    /\ UNCHANGED << selection, height, sigma_a, sigma_b, sigma_c, mu_ab, mu_bc,
                    support_pfs, oppose_pfs, abstain_pfs, threshold >>
    /\ Rerun

\* the threshold slider (line 221); it exists when the last run reached it
SetThreshold(t) ==
    /\ selection = PaperPage
    /\ "cluster" \in rendered
    /\ t # threshold
    /\ threshold' = t
    /\ UNCHANGED << selection, height, sigma_a, sigma_b, sigma_c, mu_ab, mu_bc, mu_ac,
                    support_pfs, oppose_pfs, abstain_pfs >>
    /\ Rerun

\* the support slider (line 182).  Moving it changes oppose_pfs_max and
\* abstain_pfs_max, so the two sliders below it are created anew with their
\* defaults; the threshold slider keeps its value only if the run reaches it.
SetSupportPfs(s) ==
    /\ selection = PaperPage
    /\ s # support_pfs
    /\ support_pfs' = s
    /\ oppose_pfs' = OpposePfsDefault
    /\ abstain_pfs' = AbstainPfsDefault
    /\ threshold' = IF PfsRaises(s, OpposePfsDefault) THEN ThresholdDefault ELSE threshold
    /\ UNCHANGED << selection, height, sigma_a, sigma_b, sigma_c, mu_ab, mu_bc, mu_ac >>
    /\ Rerun

\* the opposition slider (line 184), offered 0 .. oppose_pfs_max; it exists
\* when the last run created it.  Moving it changes abstain_pfs_max.
SetOpposePfs(o) ==
    /\ selection = PaperPage
    /\ ~ SliderRaises(0, OpposePfsMax(support_pfs), OpposePfsDefault)
    /\ o \in 0..OpposePfsMax(support_pfs)
    /\ o # oppose_pfs
    /\ oppose_pfs' = o
    /\ abstain_pfs' = AbstainPfsDefault
    /\ threshold' = IF PfsRaises(support_pfs, o) THEN ThresholdDefault ELSE threshold
    /\ UNCHANGED << selection, height, sigma_a, sigma_b, sigma_c, mu_ab, mu_bc, mu_ac,
                    support_pfs >>
    /\ Rerun

\* the abstention slider (line 186), offered 0 .. abstain_pfs_max
SetAbstainPfs(a) ==
    /\ selection = PaperPage
    /\ ~ PfsRaises(support_pfs, oppose_pfs)
    /\ a \in 0..AbstainPfsMax(support_pfs, oppose_pfs)
    /\ a # abstain_pfs
    /\ abstain_pfs' = a
    /\ UNCHANGED << selection, height, sigma_a, sigma_b, sigma_c, mu_ab, mu_bc, mu_ac,
                    support_pfs, oppose_pfs, threshold >>
    /\ Rerun

(***************************************************************************)
(* Values the user moves the sliders to.                                   *)
(***************************************************************************)
Heights == HeightMin..HeightMax
Thresholds == ThresholdMin..ThresholdMax
\* positions of a 0.0 .. 1.0 step 0.05 slider: GridLevels evenly spread ones
GridValues ==
    { (((Scale \div SliderStep) * i) \div (GridLevels - 1)) * SliderStep :
          i \in 0..(GridLevels - 1) }
PfsValues == { (Scale * i) \div (PfsLevels - 1) : i \in 0..(PfsLevels - 1) }

(***************************************************************************)
(* Spec: the user navigates and moves the height and threshold sliders.    *)
(***************************************************************************)
Next ==
    \/ \E sel \in Pages : Navigate(sel)
    \/ \E h \in Heights : SetHeight(h)
    \/ \E t \in Thresholds : SetThreshold(t)

Spec == Init /\ [][Next]_vars

(***************************************************************************)
(* SpecGraph: the user navigates and moves the six fuzzy-graph sliders.    *)
(***************************************************************************)
NextGraph ==
    \/ \E sel \in Pages : Navigate(sel)
    \/ \E x \in GridValues : SetSigmaA(x)
    \/ \E x \in GridValues : SetSigmaB(x)
    \/ \E x \in GridValues : SetSigmaC(x)
    \/ \E x \in GridValues : SetMuAB(x)
    \/ \E x \in GridValues : SetMuBC(x)
    \/ \E x \in GridValues : SetMuAC(x)

SpecGraph == Init /\ [][NextGraph]_vars

(***************************************************************************)
(* SpecPFS: the user navigates and moves the three picture-fuzzy sliders.  *)
(***************************************************************************)
NextPFS ==
    \/ \E sel \in Pages : Navigate(sel)
    \/ \E s \in PfsValues : SetSupportPfs(s)
    \/ \E o \in PfsValues : SetOpposePfs(o)
    \/ \E a \in PfsValues : SetAbstainPfs(a)

SpecPFS == Init /\ [][NextPFS]_vars

(***************************************************************************)
(* SpecDerive: the refusal expression of line 187 taken on its own, as a   *)
(* function of three inputs each anywhere in 0.0 .. 1.0, the slider caps   *)
(* of lines 183-186 left out.  It answers what the expression does for a   *)
(* caller that does not cap its inputs; the application itself never       *)
(* supplies such inputs (SpecPFS).                                         *)
(***************************************************************************)
InitDerive ==
    /\ GRAPHVIZ_INSTALLED \in BOOLEAN
    /\ selection = PaperPage
    /\ height = HeightDefault
    /\ sigma_a = SigmaADefault /\ sigma_b = SigmaBDefault /\ sigma_c = SigmaCDefault
    /\ mu_ab = MuABDefault /\ mu_bc = MuBCDefault /\ mu_ac = MuACDefault
    /\ support_pfs \in PfsValues
    /\ oppose_pfs \in PfsValues
    /\ abstain_pfs \in PfsValues
    /\ threshold = ThresholdDefault
    /\ membership = 0
    /\ violations = << >>
    /\ col2_shown = << >>
    /\ col2_warned = << >>
    /\ refusal = 0
    /\ mst_dot = << >>
    /\ cluster_shown = << >>
    /\ graphviz_calls = 0
    /\ raised = ""
    /\ rendered = {}

\* lines 187-191: compute the refusal and write the four values
Derive ==
    /\ rendered = {}
    /\ refusal' = Refusal(support_pfs, oppose_pfs, abstain_pfs)
    /\ raised' = ""
    /\ rendered' = {"pfs"}
    /\ UNCHANGED << GRAPHVIZ_INSTALLED, selection, widgets, membership, violations,
                    col2_shown, col2_warned, mst_dot, cluster_shown, graphviz_calls >>

NextDerive == Derive

SpecDerive == InitDerive /\ [][NextDerive]_vars

(***************************************************************************)
(* Properties.                                                             *)
(***************************************************************************)

\* the value a displayed two-decimal string <<sign, units, tenths,
\* hundredths>> denotes, in hundredths
Parse2(s) == (IF s[1] = "-" THEN 0 - 1 ELSE 1) * (s[2] * Scale + s[3] * 10 + s[4])

\* C1: for every height the slider supplies, the membership computed by the
\* run is the four-segment piecewise value: 0 below 160, ((h-160)/20)*0.8
\* on [160,180), 0.8 + ((h-180)/10)*0.2 on [180,190), 1 from 190 on; and
\* it is exactly 0.0, 0.8 and 1.0 at 160, 180 and 190.  The two sloped
\* segments are stated cross-multiplied, so without any division.
C1_MembershipPiecewise ==
    "tall" \in rendered =>
        /\ height < 160 => membership = 0
        /\ (160 <= height /\ height < 180) =>
               membership * 20 * 10 = (height - 160) * 8 * Scale
        /\ (180 <= height /\ height < 190) =>
               (membership - 80) * 10 * 10 = (height - 180) * 2 * Scale
        /\ height >= 190 => membership = Scale
        /\ height = 160 => membership = 0
        /\ height = 180 => membership = 80
        /\ height = 190 => membership = Scale

\* C1 witness: a run on the second sloped segment, strictly inside it
C1_Witness ==
    /\ "tall" \in rendered
    /\ height = 185
    /\ membership = 90

\* C2: the membership is monotonically non-decreasing: whenever one run is
\* followed by a run with a height at least as large, the membership does
\* not decrease (every pair of slider heights occurs as such a step); and it
\* is 0.0 for every height below 160 and 1.0 for every height from 190 on.
C2_Monotone ==
    /\ [][ ("tall" \in rendered /\ "tall" \in rendered' /\ height <= height')
              => membership <= membership' ]_vars
    /\ [] ("tall" \in rendered =>
              /\ height < 160 => membership = 0
              /\ height >= 190 => membership = Scale)

\* C2 witness: a run just below the boundary at 180, where the first slope
\* has reached its highest value, still below the 0.8 of the boundary
C2_Witness ==
    /\ "tall" \in rendered
    /\ height = 179
    /\ membership = 76

HasEntry(edge) == \E k \in 1..Len(violations) : violations[k].edge = edge

EntryCarries(edge, mu, sigma_u, sigma_v) ==
    \A k \in 1..Len(violations) :
        violations[k].edge = edge =>
            /\ Parse2(violations[k].mu) = mu
            /\ Parse2(violations[k].bound) <= sigma_u
            /\ Parse2(violations[k].bound) <= sigma_v
            /\ Parse2(violations[k].bound) \in {sigma_u, sigma_v}

Exceeds(mu, sigma_u, sigma_v) == mu > sigma_u \/ mu > sigma_v

\* C3: the violations list has an entry for an edge exactly when that
\* edge's mu exceeds the smaller of its endpoints' sigma, the entry shows
\* that mu and that bound, and the list is empty exactly when no edge
\* exceeds its bound.
C3_ViolationsExact ==
    "fuzzy_graph" \in rendered =>
        /\ HasEntry("A-B") <=> Exceeds(mu_ab, sigma_a, sigma_b)
        /\ HasEntry("B-C") <=> Exceeds(mu_bc, sigma_b, sigma_c)
        /\ HasEntry("A-C") <=> Exceeds(mu_ac, sigma_a, sigma_c)
        /\ EntryCarries("A-B", mu_ab, sigma_a, sigma_b)
        /\ EntryCarries("B-C", mu_bc, sigma_b, sigma_c)
        /\ EntryCarries("A-C", mu_ac, sigma_a, sigma_c)
        /\ \A k \in 1..Len(violations) : violations[k].edge \in {"A-B", "B-C", "A-C"}
        /\ (violations = << >>) <=>
               /\ ~ Exceeds(mu_ab, sigma_a, sigma_b)
               /\ ~ Exceeds(mu_bc, sigma_b, sigma_c)
               /\ ~ Exceeds(mu_ac, sigma_a, sigma_c)

\* C3 witness: only B-C violates, while A-B sits exactly on its bound
C3_Witness ==
    /\ "fuzzy_graph" \in rendered
    /\ Len(violations) = 1
    /\ violations[1].edge = "B-C"
    /\ mu_bc > sigma_b
    /\ mu_ab = sigma_a /\ sigma_a <= sigma_b
    /\ mu_ab > 0

\* an edge is drawn by the clustering demo / its two endpoints are declared
\* one after the other instead
Kept(e) ==
    \E k \in 1..Len(mst_dot) :
        /\ mst_dot[k].op = "edge"
        /\ mst_dot[k].a = e.u /\ mst_dot[k].b = e.v
        /\ Parse2(mst_dot[k].label) = e.weight

Cut(e) ==
    \E k \in 1..(Len(mst_dot) - 1) :
        /\ mst_dot[k].op = "node" /\ mst_dot[k].a = e.u
        /\ mst_dot[k + 1].op = "node" /\ mst_dot[k + 1].a = e.v

EdgeIndexes == 1..Len(EDGES)

\* C4: whenever the clustering loop runs, every edge of the list is either
\* drawn (kept) or has its endpoints declared instead (cut), never both:
\* kept exactly when weight >= threshold, the boundary included, and cut
\* exactly when weight < threshold; the graph holds nothing else.
C4_Partition ==
    ("cluster" \in rendered /\ GRAPHVIZ_INSTALLED) =>
        /\ \A i \in EdgeIndexes :
               /\ Kept(EDGES[i]) <=> EDGES[i].weight >= threshold
               /\ Cut(EDGES[i]) <=> EDGES[i].weight < threshold
               /\ ~ (Kept(EDGES[i]) /\ Cut(EDGES[i]))
               /\ Kept(EDGES[i]) \/ Cut(EDGES[i])
        /\ Len(mst_dot) =
               Cardinality({ i \in EdgeIndexes : Kept(EDGES[i]) })
               + 2 * Cardinality({ i \in EdgeIndexes : Cut(EDGES[i]) })

\* C4 witness: an edge whose weight equals the threshold is kept while
\* another edge is cut
C4_Witness ==
    /\ "cluster" \in rendered
    /\ GRAPHVIZ_INSTALLED
    /\ \E i \in EdgeIndexes : EDGES[i].weight = threshold /\ Kept(EDGES[i])
    /\ \E j \in EdgeIndexes : Cut(EDGES[j])

AllNodes == {"G1", "G2", "G3", "G4", "G5", "G6", "G7", "G8", "G9", "G10"}

\* C5: whenever the clustering graph is drawn, its node set is the set of
\* all endpoints of all edges of the list, G1 .. G10, whatever the
\* threshold keeps or cuts.
C5_AllNodesPresent ==
    ("cluster" \in rendered /\ GRAPHVIZ_INSTALLED) =>
        /\ NodesOf(mst_dot) = AllNodes
        /\ NodesOf(mst_dot) =
               { EDGES[i].u : i \in EdgeIndexes } \cup { EDGES[i].v : i \in EdgeIndexes }

\* C5 witness: a threshold that cuts every edge, all ten nodes still drawn
C5_Witness ==
    /\ "cluster" \in rendered
    /\ GRAPHVIZ_INSTALLED
    /\ \A k \in 1..Len(mst_dot) : mst_dot[k].op = "node"
    /\ Cardinality(NodesOf(mst_dot)) = 10

Shows(shown, what) == \E k \in 1..Len(shown) : shown[k] = what

\* C8: without the graph library a run makes no call into it, each demo it
\* renders shows the installation instructions instead of a chart, and the
\* run ends without an exception; with the library the instructions are
\* never shown.
C8_Fallback ==
    /\ ~ GRAPHVIZ_INSTALLED =>
           /\ graphviz_calls = 0
           /\ raised = ""
           /\ "fuzzy_graph" \in rendered \/ "cluster" \in rendered
           /\ "fuzzy_graph" \in rendered => col2_shown = << "instructions" >>
           /\ "cluster" \in rendered => cluster_shown = << "instructions" >>
    /\ GRAPHVIZ_INSTALLED =>
           /\ ~ Shows(col2_shown, "instructions")
           /\ ~ Shows(cluster_shown, "instructions")
           /\ "fuzzy_graph" \in rendered => Shows(col2_shown, "graphviz_chart")
           /\ "cluster" \in rendered => Shows(cluster_shown, "graphviz_chart")

\* C8 witness: the clustering demo rendered without the library
C8_Witness ==
    /\ ~ GRAPHVIZ_INSTALLED
    /\ selection = PaperPage
    /\ "cluster" \in rendered
    /\ cluster_shown = << "instructions" >>
    /\ threshold # ThresholdDefault

EdgeOrder(edge) == CASE edge = "A-B" -> 1 [] edge = "B-C" -> 2 [] edge = "A-C" -> 3

EdgeExceeds(edge) ==
    CASE edge = "A-B" -> Exceeds(mu_ab, sigma_a, sigma_b)
      [] edge = "B-C" -> Exceeds(mu_bc, sigma_b, sigma_c)
      [] edge = "A-C" -> Exceeds(mu_ac, sigma_a, sigma_c)

\* C9: the violations list is the violating edges in the order A-B, B-C,
\* A-C, each at most once, and the warnings that are emitted are the
\* entries of that list in that order.
C9_ViolationOrder ==
    "fuzzy_graph" \in rendered =>
        /\ \A i, j \in 1..Len(violations) :
               i < j => EdgeOrder(violations[i].edge) < EdgeOrder(violations[j].edge)
        /\ \A i \in 1..Len(violations) : EdgeExceeds(violations[i].edge)
        /\ Len(violations) =
               Cardinality({ e \in {"A-B", "B-C", "A-C"} : EdgeExceeds(e) })
        /\ col2_warned # << >> => col2_warned = violations
        /\ Len(col2_warned) =
               Cardinality({ k \in 1..Len(col2_shown) : col2_shown[k] = "warning" })

\* C9 witness: all three edges violate and the three warnings are emitted
C9_Witness ==
    /\ "fuzzy_graph" \in rendered
    /\ Len(violations) = 3
    /\ violations[1].edge = "A-B"
    /\ violations[3].edge = "A-C"
    /\ col2_warned = violations

\* C10 as claimed: whether or not the graph library is available, every
\* run of the fuzzy-graph demo shows either the "valid fuzzy graph"
\* message, exactly when no edge violates the rule, or one warning per
\* violating edge; never both and never neither.
C10_VerdictAlwaysShown ==
    "fuzzy_graph" \in rendered =>
        LET valid == Shows(col2_shown, "success")
            nWarn == Cardinality({ k \in 1..Len(col2_shown) : col2_shown[k] = "warning" })
        IN  /\ valid <=> violations = << >>
            /\ nWarn = Len(violations)
            /\ col2_warned = violations
            /\ ~ (valid /\ nWarn > 0)
            /\ valid \/ nWarn > 0

====
